---- MODULE Spec2Model ----
(***************************************************************************)
(* EnviroDrip irrigation controller: the coordinator's refresh cycle, the  *)
(* history file (ledger), the per-zone timed run and the zone switch.      *)
(*                                                                         *)
(* Units.  The history file holds floats; the model holds integers:        *)
(*   et, rainfall, water_used of a history record : hundredths             *)
(*   irrigation_needed of a zone                  : thousandths (the       *)
(*       deficit in hundredths times a crop coefficient in tenths)         *)
(*   total_water_used, daily_water_used, flow_rate, duration : units       *)
(* Time is minutes since midnight of EpochDate; a date is a day number     *)
(* counted from EpochDate, and isoformat() of a date is the <<y, m, d>>    *)
(* triple, compared as the code compares the strings (lexicographically).  *)
(*                                                                         *)
(* Interleaving.  hass.services.async_call without blocking=True does not  *)
(* suspend, so a coroutine runs atomically up to its next file operation,  *)
(* sleep or awaited refresh.  aiofiles.open(mode='w') truncates the file   *)
(* when it opens it and the content lands when the handle is closed, so a  *)
(* save is two steps (open, write) and a load in between reads an empty    *)
(* file.  A write that lands over a longer content written since its own   *)
(* open leaves that content's tail behind; the model reports it when the   *)
(* other content holds more records (a sufficient condition).              *)
(***************************************************************************)
EXTENDS Integers, Sequences, FiniteSets, TLC

\* ------------------------------------------------------------------ bounds
\* external events explored: service calls, refresh cycles, clock advances
MaxCalls == 3
\* age in days of the oldest record of a ledger drawn for the need calculator
MaxProbeAge == 7
\* last day (counted from the epoch) on which the scheduler is evaluated
MaxProbeDay == 6
\* number of steps of ProbeNeedStep up to the largest need drawn for run_zone
MaxProbeNeed == 120

\* --------------------------------------------------------------- constants
days_back == 7
retention == 30
MinDuration == 5
MaxDuration == 60
MaxEt == 1500
DEFAULT_DURATION == 15
MinutesPerDay == 24 * 60
\* hundredths per unit
Scale == 10 * 10

\* run_zone(zone_id, duration=None): the absent duration
NoDuration == 0 - 1
\* datetime | None, as minutes since the epoch: the absent value
NoTime == 0 - 1

\* the calendar day that day number 0 stands for (a Monday)
EpochDate == <<2024, 12, 2>>
\* the clock when the coordinator is constructed: day 0, 05:00
StartNow == 5 * 60

WeekTags == <<"mon", "tue", "wed", "thu", "fri", "sat", "sun">>

\* ------------------------------------------------------------ configuration
\* entry.data["zones"]: the configured zones (static fields)
ZoneConfig ==
  [ z1 |-> [zone_type |-> "lawn", flow_rate |-> 10, duration |-> 15,
            schedule |-> <<6, 0>>, days |-> {"mon", "wed", "fri"},
            enabled |-> TRUE],
    z2 |-> [zone_type |-> "garden", flow_rate |-> 4, duration |-> 15,
            schedule |-> <<6, 0>>, days |-> {"mon"},
            enabled |-> TRUE] ]

ZoneIds == DOMAIN ZoneConfig

\* zone ids a caller may pass to run_zone: the configured ones and a stranger
CallIds == ZoneIds \cup {"zx"}

\* durations a caller passes: none, or the switch's default
Durations == {NoDuration, DEFAULT_DURATION}

\* clock advances the environment may make: the date rolls over, or the
\* system sits idle for thirty or thirty-one days
TickDeltas == {MinutesPerDay, retention * MinutesPerDay,
               (retention + 1) * MinutesPerDay}

\* ------------------------------------------------------------------ weather
\* Python's None as the value of a weather field
None == 0 - 9999

\* get_current_conditions(): {} when the fetch failed, else the summary
WeatherFailed == [k \in {} |-> 0]

WeatherDry ==
  [temp_min |-> 10, temp_max |-> 25, humidity |-> 50, wind_speed |-> 2,
   precipitation |-> 0]

WeatherWet ==
  [temp_min |-> 15, temp_max |-> 20, humidity |-> 90, wind_speed |-> 1,
   precipitation |-> 300]

\* a 200 response without the daily temperatures: the keys are there, the
\* values are None
WeatherPartial ==
  [temp_min |-> None, temp_max |-> None, humidity |-> 50, wind_speed |-> 2,
   precipitation |-> 0]

WeatherInputs == {WeatherFailed, WeatherPartial, WeatherDry, WeatherWet}

\* the Penman-Monteith sum of weather.py lines 125-179 in hundredths of a
\* millimetre, evaluated at latitude 40 on day 337 of the year for the sampled
\* <<temp_min, temp_max, humidity, wind_speed>>
PenmanTable ==
  <<10, 25, 5, 0>> :> 131 @@ <<10, 25, 5, 1>> :> 267 @@ <<10, 25, 5, 2>> :> 383 @@ <<10, 25, 5, 15>> :> 1114 @@
  <<10, 25, 50, 0>> :> 131 @@ <<10, 25, 50, 1>> :> 198 @@ <<10, 25, 50, 2>> :> 255 @@ <<10, 25, 50, 15>> :> 614 @@
  <<10, 25, 90, 0>> :> 131 @@ <<10, 25, 90, 1>> :> 136 @@ <<10, 25, 90, 2>> :> 141 @@ <<10, 25, 90, 15>> :> 169 @@
  <<10, 25, 100, 0>> :> 131 @@ <<10, 25, 100, 1>> :> 121 @@ <<10, 25, 100, 2>> :> 112 @@ <<10, 25, 100, 15>> :> 58 @@
  <<15, 20, 5, 0>> :> 51 @@ <<15, 20, 5, 1>> :> 188 @@ <<15, 20, 5, 2>> :> 305 @@ <<15, 20, 5, 15>> :> 1017 @@
  <<15, 20, 50, 0>> :> 51 @@ <<15, 20, 50, 1>> :> 121 @@ <<15, 20, 50, 2>> :> 181 @@ <<15, 20, 50, 15>> :> 546 @@
  <<15, 20, 90, 0>> :> 51 @@ <<15, 20, 90, 1>> :> 62 @@ <<15, 20, 90, 2>> :> 71 @@ <<15, 20, 90, 15>> :> 127 @@
  <<15, 20, 100, 0>> :> 51 @@ <<15, 20, 100, 1>> :> 47 @@ <<15, 20, 100, 2>> :> 43 @@ <<15, 20, 100, 15>> :> 22 @@
  <<20, 20, 5, 0>> :> (0 - 56) @@ <<20, 20, 5, 1>> :> 98 @@ <<20, 20, 5, 2>> :> 231 @@ <<20, 20, 5, 15>> :> 1074 @@
  <<20, 20, 50, 0>> :> (0 - 56) @@ <<20, 20, 50, 1>> :> 27 @@ <<20, 20, 50, 2>> :> 99 @@ <<20, 20, 50, 15>> :> 553 @@
  <<20, 20, 90, 0>> :> (0 - 56) @@ <<20, 20, 90, 1>> :> (0 - 36) @@ <<20, 20, 90, 2>> :> (0 - 19) @@ <<20, 20, 90, 15>> :> 91 @@
  <<20, 20, 100, 0>> :> (0 - 56) @@ <<20, 20, 100, 1>> :> (0 - 52) @@ <<20, 20, 100, 2>> :> (0 - 48) @@ <<20, 20, 100, 15>> :> (0 - 25) @@
  <<30, 45, 5, 0>> :> 165 @@ <<30, 45, 5, 1>> :> 367 @@ <<30, 45, 5, 2>> :> 555 @@ <<30, 45, 5, 15>> :> 2161 @@
  <<30, 45, 50, 0>> :> 165 @@ <<30, 45, 50, 1>> :> 269 @@ <<30, 45, 50, 2>> :> 365 @@ <<30, 45, 50, 15>> :> 1187 @@
  <<30, 45, 90, 0>> :> 165 @@ <<30, 45, 90, 1>> :> 181 @@ <<30, 45, 90, 2>> :> 195 @@ <<30, 45, 90, 15>> :> 321 @@
  <<30, 45, 100, 0>> :> 165 @@ <<30, 45, 100, 1>> :> 159 @@ <<30, 45, 100, 2>> :> 153 @@ <<30, 45, 100, 15>> :> 104

\* line 150: math.sqrt(temp_max - temp_min) raises when temp_max < temp_min
ArithmeticFails(w) == w.temp_max < w.temp_min

PenmanMonteith(w) ==
  LET key == <<w.temp_min, w.temp_max, w.humidity, w.wind_speed>>
  IN IF key \in DOMAIN PenmanTable THEN PenmanTable[key] ELSE 0

Max(a, b) == IF a >= b THEN a ELSE b
Min(a, b) == IF a <= b THEN a ELSE b

RequiredFields == {"temp_min", "temp_max", "humidity", "wind_speed"}

calculate_et_for_day_unbounded(w) ==
  IF ~ (RequiredFields \subseteq DOMAIN w) THEN 0
  ELSE IF \E k \in RequiredFields : w[k] = None THEN 0
  ELSE IF ArithmeticFails(w) THEN 0
  ELSE Max(0, PenmanMonteith(w))

\* calculate_et_for_day: 0.0 when a key is missing (line 121) or when the
\* arithmetic raises (lines 184-186), as it does on a None and on
\* temp_max < temp_min
calculate_et_for_day(w) ==
  IF ~ (RequiredFields \subseteq DOMAIN w) THEN 0
  ELSE IF \E k \in RequiredFields : w[k] = None THEN 0
  ELSE IF ArithmeticFails(w) THEN 0
  ELSE Max(0, Min(MaxEt, PenmanMonteith(w)))

Precipitation(w) ==
  IF "precipitation" \in DOMAIN w THEN w["precipitation"] ELSE 0

\* ----------------------------------------------------------------- calendar
IsLeap(y) == (y % 4 = 0 /\ y % 100 # 0) \/ y % 400 = 0

DaysInMonth(y, m) ==
  IF m = 2 THEN (IF IsLeap(y) THEN 29 ELSE 28)
  ELSE IF m \in {4, 6, 9, 11} THEN 30 ELSE 31

RECURSIVE Normalize(_, _, _)
Normalize(y, m, d) ==
  IF d < 1
    THEN IF m = 1 THEN Normalize(y - 1, 12, d + 31)
         ELSE Normalize(y, m - 1, d + DaysInMonth(y, m - 1))
  ELSE IF d > DaysInMonth(y, m)
    THEN IF m = 12 THEN Normalize(y + 1, 1, d - 31)
         ELSE Normalize(y, m + 1, d - DaysInMonth(y, m))
  ELSE <<y, m, d>>

\* date.isoformat(): "YYYY-MM-DD" as the triple of its fields
IsoFormat(day) == Normalize(EpochDate[1], EpochDate[2], EpochDate[3] + day)

\* k >= cutoff on two isoformat strings
IsoGeq(a, b) ==
  \/ a[1] > b[1]
  \/ a[1] = b[1] /\ a[2] > b[2]
  \/ a[1] = b[1] /\ a[2] = b[2] /\ a[3] >= b[3]

\* dt_util.now().date()
DateOf(t) == t \div MinutesPerDay

\* now.strftime("%a").lower()
DayTag(day) == WeekTags[(day % 7) + 1]

\* dt_util.now().isoformat(): date fields, hour, minute
IsoDateTime(t) ==
  IsoFormat(DateOf(t)) \o <<(t % MinutesPerDay) \div 60, (t % MinutesPerDay) % 60>>

\* ------------------------------------------------------------------ history
EmptyHistory == [d \in {} |-> 0]

FileMissing == [state |-> "missing", data |-> EmptyHistory]
FileUnparsable == [state |-> "unparsable", data |-> EmptyHistory]
FileOk(h) == [state |-> "ok", data |-> h]

load_history_missing_raises(f) ==
  IF f.state = "ok" THEN [ok |-> TRUE, history |-> f.data]
  ELSE [ok |-> FALSE, history |-> EmptyHistory]

\* _load_history: {} for a missing file, the parsed content otherwise; a file
\* that does not parse raises (only FileNotFoundError is caught)
load_history(f) ==
  IF f.state = "missing" THEN [ok |-> TRUE, history |-> EmptyHistory]
  ELSE IF f.state = "unparsable" THEN [ok |-> FALSE, history |-> EmptyHistory]
  ELSE [ok |-> TRUE, history |-> f.data]

\* _save_history, lines 218-219: keep the keys k >= cutoff
PruneOffByOne(history, today) ==
  LET cutoff == IsoFormat(today - retention - 1)
      keep == {k \in DOMAIN history : IsoGeq(IsoFormat(k), cutoff)}
  IN [k \in keep |-> history[k]]

Prune(history, today) ==
  LET cutoff == IsoFormat(today - retention)
      keep == {k \in DOMAIN history : IsoGeq(IsoFormat(k), cutoff)}
  IN [k \in keep |-> history[k]]

\* _save_history, line 222: open(mode='w') truncates
TruncateFile == FileUnparsable

\* _save_history, line 223 and the close: the content lands at offset 0
WriteFile(f, content) ==
  IF f.state = "ok" /\ Cardinality(DOMAIN f.data) > Cardinality(DOMAIN content)
    THEN FileUnparsable
    ELSE FileOk(content)

\* _async_update_data, lines 74-82
UpsertOverwrite(history, today, et, rain) ==
  [k \in DOMAIN history \cup {today} |->
     IF k = today
       THEN [et |-> et, rainfall |-> rain, water_used |-> 0]
       ELSE history[k]]

UpsertAccumulateRain(history, today, et, rain) ==
  [k \in DOMAIN history \cup {today} |->
     IF k = today
       THEN IF today \in DOMAIN history
              THEN [history[today] EXCEPT !.et = et, !.rainfall = @ + rain]
              ELSE [et |-> et, rainfall |-> rain, water_used |-> 0]
       ELSE history[k]]

Upsert(history, today, et, rain) ==
  [k \in DOMAIN history \cup {today} |->
     IF k = today
       THEN IF today \in DOMAIN history
              THEN [history[today] EXCEPT !.et = et, !.rainfall = rain]
              ELSE [et |-> et, rainfall |-> rain, water_used |-> 0]
       ELSE history[k]]

\* turn_off, lines 197-198: only an existing record is credited
AddWater(history, today, water) ==
  IF today \in DOMAIN history
    THEN [history EXCEPT ![today].water_used = @ + water]
    ELSE history

\* ------------------------------------------------------- need and schedule
crop_coefficients ==
  [lawn |-> 8, garden |-> 10, drip |-> 6, flowers |-> 7, trees |-> 5]

Kc(zone_type) ==
  IF zone_type \in DOMAIN crop_coefficients
    THEN crop_coefficients[zone_type]
    ELSE 8

RECURSIVE SumFieldEightDays(_, _, _, _)
SumFieldEightDays(history, today, field, i) ==
  IF i > days_back THEN 0
  ELSE (IF (today - i) \in DOMAIN history
          THEN history[today - i][field] ELSE 0)
       + SumFieldEightDays(history, today, field, i + 1)

RECURSIVE SumField(_, _, _, _)
SumField(history, today, field, i) ==
  IF i >= days_back THEN 0
  ELSE (IF (today - i) \in DOMAIN history
          THEN history[today - i][field] ELSE 0)
       + SumField(history, today, field, i + 1)

\* _calculate_irrigation_need, in thousandths
calculate_irrigation_need_signed(cfg, history, today) ==
  LET deficit == SumField(history, today, "et", 0)
                 - SumField(history, today, "rainfall", 0)
                 - SumField(history, today, "water_used", 0)
  IN deficit * Kc(cfg.zone_type)

calculate_irrigation_need(cfg, history, today) ==
  LET deficit == SumField(history, today, "et", 0)
                 - SumField(history, today, "rainfall", 0)
                 - SumField(history, today, "water_used", 0)
  IN Max(0, deficit * Kc(cfg.zone_type))

RECURSIVE NextScheduledDaySixAhead(_, _, _)
NextScheduledDaySixAhead(days, today, i) ==
  IF i > 6 THEN NoTime
  ELSE IF DayTag(today + i) \in days THEN today + i
  ELSE NextScheduledDaySixAhead(days, today, i + 1)

RECURSIVE NextScheduledDay(_, _, _)
NextScheduledDay(days, today, i) ==
  IF i > 7 THEN NoTime
  ELSE IF DayTag(today + i) \in days THEN today + i
  ELSE NextScheduledDay(days, today, i + 1)

calculate_next_run_not_after(cfg, t) ==
  LET today == DateOf(t)
      at == cfg.schedule[1] * 60 + cfg.schedule[2]
      scheduled_time == today * MinutesPerDay + at
      next_day == NextScheduledDay(cfg.days, today, 1)
  IN IF ~ cfg.enabled THEN NoTime
     ELSE IF DayTag(today) \in cfg.days /\ t <= scheduled_time
       THEN scheduled_time
     ELSE IF next_day = NoTime THEN NoTime
     ELSE next_day * MinutesPerDay + at

\* _calculate_next_run: minutes since the epoch, or NoTime
calculate_next_run(cfg, t) ==
  LET today == DateOf(t)
      at == cfg.schedule[1] * 60 + cfg.schedule[2]
      scheduled_time == today * MinutesPerDay + at
      next_day == NextScheduledDay(cfg.days, today, 1)
  IN IF ~ cfg.enabled THEN NoTime
     ELSE IF DayTag(today) \in cfg.days /\ t < scheduled_time
       THEN scheduled_time
     ELSE IF next_day = NoTime THEN NoTime
     ELSE next_day * MinutesPerDay + at

\* run_zone, line 171: max(5, min(60, int(need / flow_rate * 60)))
ComputeDurationNoFloor(need, flow_rate) ==
  Min(MaxDuration, (need * 60) \div (1000 * flow_rate))

ComputeDuration(need, flow_rate) ==
  Max(MinDuration, Min(MaxDuration, (need * 60) \div (1000 * flow_rate)))

\* turn_off, line 189: duration * flow_rate
WaterUsedDefaultFlow(duration, cfg) == duration * 10

WaterUsed(duration, cfg) == duration * cfg.flow_rate

\* -------------------------------------------------------------------- state
VARIABLES
  zones,              \* zone id -> the mutable fields of the zone dict
  tasks,              \* the turn_off coroutines created and not finished
  file,               \* the history file
  data,               \* coordinator.data: the last successful refresh result
  last_update_success,
  refresh,            \* the _async_update_data call in flight, if any
  actuator,           \* zone id -> switch.turn_on / turn_off service calls
  now,                \* the clock, minutes since the epoch
  calls,              \* external events so far
  reply,              \* what the last service call gave back to its caller
  probe,              \* the arguments of a function evaluated on its own
  answer              \* the value that evaluation returned

vars == <<zones, tasks, file, data, last_update_success, refresh, actuator,
          now, calls, reply, probe, answer>>

\* the variables of the function evaluations, untouched by the controller
fnvars == <<probe, answer>>

NoProbe == [fn |-> "none"]
NoAnswer == [done |-> FALSE, value |-> 0]

RefreshIdle ==
  [pc |-> "idle", weather |-> WeatherFailed, et_today |-> 0,
   history |-> EmptyHistory, pending |-> EmptyHistory, today |-> 0]

NoData == [weather |-> WeatherFailed, et_today |-> 0, history |-> EmptyHistory]

\* _init_zone_states
init_zone_states ==
  [z \in ZoneIds |->
     [status |-> "idle", last_run |-> << >>, total_water_used |-> 0,
      daily_water_used |-> 0, irrigation_needed |-> 0, next_run |-> NoTime]]

InitCommon ==
  /\ zones = init_zone_states
  /\ tasks = {}
  /\ data = NoData
  /\ last_update_success = TRUE
  /\ refresh = RefreshIdle
  /\ actuator = [z \in ZoneIds |-> [on |-> 0, off |-> 0]]
  /\ now = StartNow
  /\ calls = 0
  /\ reply = "None"

\* a fresh installation: no history file yet
Init == InitCommon /\ file = FileMissing /\ probe = NoProbe /\ answer = NoAnswer

\* a restart on a day whose record an earlier process has already saved
WarmHistory ==
  [d \in {DateOf(StartNow)} |-> [et |-> 255, rainfall |-> 0, water_used |-> 0]]

InitWarm ==
  InitCommon /\ file = FileOk(WarmHistory) /\ probe = NoProbe /\ answer = NoAnswer

run_zone_exclusive(zone_id, duration) ==
  /\ calls < MaxCalls
  /\ calls' = calls + 1
  /\ IF zone_id \notin ZoneIds
       THEN UNCHANGED <<zones, tasks, actuator>>
       ELSE LET d == IF duration = NoDuration
                       THEN ComputeDuration(zones[zone_id].irrigation_needed,
                                            ZoneConfig[zone_id].flow_rate)
                       ELSE duration
            IN /\ zones' = [y \in ZoneIds |->
                            IF y = zone_id
                              THEN [zones[y] EXCEPT !.status = "running",
                                                    !.last_run = IsoDateTime(now)]
                              ELSE [zones[y] EXCEPT !.status = "idle"]]
               /\ actuator' = [actuator EXCEPT ![zone_id].on = @ + 1]
               /\ tasks' = tasks \cup
                    {[id |-> calls + 1, zone |-> zone_id, duration |-> d,
                      pc |-> "sleep", history |-> EmptyHistory, today |-> 0]}
  /\ UNCHANGED <<file, data, last_update_success, refresh, now>>
  /\ reply' = "None"
  /\ UNCHANGED fnvars

run_zone_awaits_completion(zone_id, duration) ==
  /\ calls < MaxCalls
  /\ calls' = calls + 1
  /\ IF zone_id \notin ZoneIds
       THEN UNCHANGED <<zones, tasks, actuator>>
       ELSE LET d == IF duration = NoDuration
                       THEN ComputeDuration(zones[zone_id].irrigation_needed,
                                            ZoneConfig[zone_id].flow_rate)
                       ELSE duration
            IN /\ zones' = [zones EXCEPT ![zone_id].status = "running",
                                         ![zone_id].last_run = IsoDateTime(now)]
               /\ actuator' = [actuator EXCEPT ![zone_id].on = @ + 1]
               /\ tasks' = tasks \cup
                    {[id |-> calls + 1, zone |-> zone_id, duration |-> d,
                      pc |-> "load", history |-> EmptyHistory, today |-> 0]}
  /\ UNCHANGED <<file, data, last_update_success, refresh, now>>
  /\ reply' = "None"
  /\ UNCHANGED fnvars

\* ------------------------------------------------------------------ actions
\* EnviroDripCoordinator.run_zone; the refresh it requests at the end is one
\* of the cycles update_fetch starts
run_zone(zone_id, duration) ==
  /\ calls < MaxCalls
  /\ calls' = calls + 1
  /\ IF zone_id \notin ZoneIds
       THEN UNCHANGED <<zones, tasks, actuator>>
       ELSE LET d == IF duration = NoDuration
                       THEN ComputeDuration(zones[zone_id].irrigation_needed,
                                            ZoneConfig[zone_id].flow_rate)
                       ELSE duration
            IN /\ zones' = [zones EXCEPT ![zone_id].status = "running",
                                         ![zone_id].last_run = IsoDateTime(now)]
               /\ actuator' = [actuator EXCEPT ![zone_id].on = @ + 1]
               /\ tasks' = tasks \cup
                    {[id |-> calls + 1, zone |-> zone_id, duration |-> d,
                      pc |-> "sleep", history |-> EmptyHistory, today |-> 0]}
  /\ UNCHANGED <<file, data, last_update_success, refresh, now>>
  /\ reply' = "None"
  /\ UNCHANGED fnvars

turn_off_elapsed_after_load(t) ==
  /\ t \in tasks /\ t.pc = "sleep"
  /\ IF load_history(file).ok
       THEN LET water_used == WaterUsed(t.duration, ZoneConfig[t.zone])
            IN /\ zones' = [zones EXCEPT
                               ![t.zone].total_water_used = @ + water_used,
                               ![t.zone].daily_water_used = @ + water_used,
                               ![t.zone].status = "idle"]
               /\ actuator' = [actuator EXCEPT ![t.zone].off = @ + 1]
               /\ tasks' = (tasks \ {t}) \cup {[t EXCEPT !.pc = "load"]}
       ELSE /\ tasks' = tasks \ {t}
            /\ UNCHANGED <<zones, actuator>>
  /\ UNCHANGED <<file, data, last_update_success, refresh, now, calls>>
  /\ UNCHANGED <<reply, probe, answer>>

\* run_zone.turn_off, lines 183-192: the sleep is over
turn_off_elapsed(t) ==
  /\ t \in tasks /\ t.pc = "sleep"
  /\ LET water_used == WaterUsed(t.duration, ZoneConfig[t.zone])
     IN zones' = [zones EXCEPT ![t.zone].total_water_used = @ + water_used,
                               ![t.zone].daily_water_used = @ + water_used,
                               ![t.zone].status = "idle"]
  /\ actuator' = [actuator EXCEPT ![t.zone].off = @ + 1]
  /\ tasks' = (tasks \ {t}) \cup {[t EXCEPT !.pc = "load"]}
  /\ UNCHANGED <<file, data, last_update_success, refresh, now, calls>>
  /\ UNCHANGED <<reply, probe, answer>>

\* run_zone.turn_off, line 195: an unparsable file ends the task
turn_off_load(t) ==
  /\ t \in tasks /\ t.pc = "load"
  /\ LET r == load_history(file)
     IN tasks' = IF r.ok
                   THEN (tasks \ {t}) \cup
                          {[t EXCEPT !.pc = "loaded", !.history = r.history]}
                   ELSE tasks \ {t}
  /\ UNCHANGED <<zones, file, data, last_update_success, refresh, actuator,
                 now, calls>>
  /\ UNCHANGED <<reply, probe, answer>>

\* run_zone.turn_off, lines 196-199 up to the open of _save_history
turn_off_open(t) ==
  /\ t \in tasks /\ t.pc = "loaded"
  /\ LET today == DateOf(now)
         water_used == WaterUsed(t.duration, ZoneConfig[t.zone]) * Scale
         history == AddWater(t.history, today, water_used)
     IN tasks' = (tasks \ {t}) \cup
                   {[t EXCEPT !.pc = "opened", !.today = today,
                              !.history = Prune(history, today)]}
  /\ file' = TruncateFile
  /\ UNCHANGED <<zones, data, last_update_success, refresh, actuator, now,
                 calls>>
  /\ UNCHANGED <<reply, probe, answer>>

\* run_zone.turn_off, lines 199-201: the write lands; the refresh requested
\* at the end is one of the cycles update_fetch starts
turn_off_write(t) ==
  /\ t \in tasks /\ t.pc = "opened"
  /\ file' = WriteFile(file, t.history)
  /\ tasks' = tasks \ {t}
  /\ UNCHANGED <<zones, data, last_update_success, refresh, actuator, now,
                 calls>>
  /\ UNCHANGED <<reply, probe, answer>>

\* run_zone.turn_off, line 199: _save_history raises (the open of line 222
\* fails and the file is as it was, or the write of line 223 fails and the
\* file stays truncated); nothing in the task catches it, the task ends
turn_off_save_fails(t) ==
  /\ t \in tasks /\ t.pc = "loaded"
  /\ calls < MaxCalls
  /\ calls' = calls + 1
  /\ file' \in {file, TruncateFile}
  /\ tasks' = tasks \ {t}
  /\ UNCHANGED <<zones, data, last_update_success, refresh, actuator, now>>
  /\ UNCHANGED <<reply, probe, answer>>

async_turn_off_uncredits(z) ==
  /\ calls < MaxCalls
  /\ calls' = calls + 1
  /\ actuator' = [actuator EXCEPT ![z].off = @ + 1]
  /\ zones' = [zones EXCEPT ![z].status = "idle", ![z].daily_water_used = 0]
  /\ UNCHANGED <<tasks, file, data, last_update_success, refresh, now>>
  /\ reply' = "None"
  /\ UNCHANGED fnvars

\* EnviroDripZoneSwitch.async_turn_off
async_turn_off(z) ==
  /\ calls < MaxCalls
  /\ calls' = calls + 1
  /\ actuator' = [actuator EXCEPT ![z].off = @ + 1]
  /\ zones' = [zones EXCEPT ![z].status = "idle"]
  /\ UNCHANGED <<tasks, file, data, last_update_success, refresh, now>>
  /\ reply' = "None"
  /\ UNCHANGED fnvars

\* _async_update_data, lines 63-67: the timer or a requested refresh starts
\* a cycle; weather is fetched and the ET computed
update_fetch(w) ==
  /\ refresh.pc = "idle"
  /\ calls < MaxCalls
  /\ calls' = calls + 1
  /\ refresh' = [RefreshIdle EXCEPT !.pc = "fetched", !.weather = w,
                                    !.et_today = calculate_et_for_day(w)]
  /\ UNCHANGED <<zones, tasks, file, data, last_update_success, actuator, now>>
  /\ UNCHANGED <<reply, probe, answer>>

\* _async_update_data, line 70; an error becomes UpdateFailed (line 101)
update_load ==
  /\ refresh.pc = "fetched"
  /\ LET r == load_history(file)
     IN IF r.ok
          THEN /\ refresh' = [refresh EXCEPT !.pc = "loaded",
                                             !.history = r.history]
               /\ UNCHANGED last_update_success
          ELSE /\ refresh' = RefreshIdle
               /\ last_update_success' = FALSE
  /\ UNCHANGED <<zones, tasks, file, data, actuator, now, calls>>
  /\ UNCHANGED <<reply, probe, answer>>

\* _async_update_data, lines 73-85 up to the open of _save_history
update_open ==
  /\ refresh.pc = "loaded"
  /\ LET today == DateOf(now)
         history == Upsert(refresh.history, today, refresh.et_today,
                           Precipitation(refresh.weather))
     IN refresh' = [refresh EXCEPT !.pc = "opened", !.today = today,
                                   !.history = history,
                                   !.pending = Prune(history, today)]
  /\ file' = TruncateFile
  /\ UNCHANGED <<zones, tasks, data, last_update_success, actuator, now, calls>>
  /\ UNCHANGED <<reply, probe, answer>>

\* _async_update_data, line 85: _save_history raises (at the open, or at the
\* write after the truncation); the error becomes UpdateFailed (line 101)
update_save_fails ==
  /\ refresh.pc = "loaded"
  /\ calls < MaxCalls
  /\ calls' = calls + 1
  /\ file' \in {file, TruncateFile}
  /\ refresh' = RefreshIdle
  /\ last_update_success' = FALSE
  /\ UNCHANGED <<zones, tasks, data, actuator, now>>
  /\ UNCHANGED <<reply, probe, answer>>

\* _async_update_data, lines 85-98: the write lands, every zone is recomputed
update_write ==
  /\ refresh.pc = "opened"
  /\ file' = WriteFile(file, refresh.pending)
  /\ zones' = [z \in ZoneIds |->
                 [zones[z] EXCEPT
                    !.irrigation_needed =
                       calculate_irrigation_need(ZoneConfig[z], refresh.history,
                                                 DateOf(now)),
                    !.next_run = calculate_next_run(ZoneConfig[z], now)]]
  /\ data' = [weather |-> refresh.weather, et_today |-> refresh.et_today,
              history |-> refresh.history]
  /\ last_update_success' = TRUE
  /\ refresh' = RefreshIdle
  /\ UNCHANGED <<tasks, actuator, now, calls>>
  /\ UNCHANGED <<reply, probe, answer>>

\* the clock advances.  A run sleeps at most MaxDuration minutes and ledger
\* I/O is short, so more than a day passes only while nothing is pending.
Tick(delta) ==
  /\ calls < MaxCalls
  /\ calls' = calls + 1
  /\ delta > MinutesPerDay => (tasks = {} /\ refresh.pc = "idle")
  /\ now' = now + delta
  /\ UNCHANGED <<zones, tasks, file, data, last_update_success, refresh,
                 actuator>>
  /\ UNCHANGED <<reply, probe, answer>>



Next ==
  \/ \E zone_id \in CallIds, duration \in Durations : run_zone(zone_id, duration)
  \/ \E t \in tasks : turn_off_elapsed(t)
  \/ \E t \in tasks : turn_off_load(t)
  \/ \E t \in tasks : turn_off_open(t)
  \/ \E t \in tasks : turn_off_write(t)
  \/ \E t \in tasks : turn_off_save_fails(t)
  \/ \E z \in ZoneIds : async_turn_off(z)
  \/ \E w \in WeatherInputs : update_fetch(w)
  \/ update_load
  \/ update_open
  \/ update_write
  \/ update_save_fails
  \/ \E delta \in TickDeltas : Tick(delta)

Spec == Init /\ [][Next]_vars

SpecWarm == InitWarm /\ [][Next]_vars

\* the event loop runs every timer task whose asyncio.sleep is over
TimerFairness == WF_vars(\E t \in tasks : turn_off_elapsed(t))

\* the life of the runs: starts, stops and the steps of the completions.
\* The clock and the refresh cycle reach a completion only through the store,
\* which a completion finds missing, readable or unreadable here as well.
NextLive ==
  \/ \E zone_id \in CallIds, duration \in Durations : run_zone(zone_id, duration)
  \/ \E t \in tasks : turn_off_elapsed(t)
  \/ \E t \in tasks : turn_off_load(t)
  \/ \E t \in tasks : turn_off_open(t)
  \/ \E t \in tasks : turn_off_write(t)
  \/ \E t \in tasks : turn_off_save_fails(t)
  \/ \E z \in ZoneIds : async_turn_off(z)

SpecLive == Init /\ [][NextLive]_vars /\ TimerFairness

\* ------------------------------------------- the need calculator on its own
\* the day the probed calculation runs on
ProbeToday == 2 * days_back

ProbeRecords ==
  { [et |-> 500, rainfall |-> 0, water_used |-> 0],
    [et |-> 100, rainfall |-> 300, water_used |-> 200] }

ProbeDays == {ProbeToday - a : a \in 0..MaxProbeAge}

\* every ledger with records of ProbeRecords on some of the last days
ProbeHistories == UNION {[D -> ProbeRecords] : D \in SUBSET ProbeDays}

\* the table's zone types and one the table does not know
ProbeZoneTypes == DOMAIN crop_coefficients \cup {"shrubs"}

InitNeed ==
  /\ InitCommon /\ file = FileMissing
  /\ probe \in {[fn |-> "need", cfg |-> [zone_type |-> zt], history |-> h,
                  today |-> ProbeToday] :
                   zt \in ProbeZoneTypes, h \in ProbeHistories}
  /\ answer = NoAnswer

\* _calculate_irrigation_need applied to the drawn zone and ledger
eval_need ==
  /\ probe.fn = "need" /\ ~ answer.done
  /\ answer' = [done |-> TRUE,
                 value |-> calculate_irrigation_need(probe.cfg, probe.history,
                                                     probe.today)]
  /\ UNCHANGED <<zones, tasks, file, data, last_update_success, refresh,
                 actuator, now, calls, reply, probe>>

NextNeed == eval_need

SpecNeed == InitNeed /\ [][NextNeed]_vars

\* ------------------------------------------------ the scheduler on its own
\* the schedule of the probed zone, the default "06:00"
ProbeSchedule == <<6, 0>>

\* evaluation instants: before, at and after the scheduled time of each day
ProbeNows ==
  {d * MinutesPerDay + h * 60 : d \in 0..MaxProbeDay, h \in {5, 6, 7}}

InitSched ==
  /\ InitCommon /\ file = FileMissing
  /\ probe \in {[fn |-> "next_run",
                  cfg |-> [schedule |-> ProbeSchedule, days |-> ds,
                           enabled |-> en],
                  now |-> t] :
                   ds \in SUBSET {WeekTags[i] : i \in 1..7},
                   en \in BOOLEAN, t \in ProbeNows}
  /\ answer = NoAnswer

\* _calculate_next_run applied to the drawn zone at the drawn instant
eval_next_run ==
  /\ probe.fn = "next_run" /\ ~ answer.done
  /\ answer' = [done |-> TRUE, value |-> calculate_next_run(probe.cfg, probe.now)]
  /\ UNCHANGED <<zones, tasks, file, data, last_update_success, refresh,
                 actuator, now, calls, reply, probe>>

NextSched == eval_next_run

SpecSched == InitSched /\ [][NextSched]_vars

\* ------------------------------------- the computed duration on its own
\* needs are drawn in steps of 0.17 mm, in thousandths of a millimetre
ProbeNeedStep == 17 * 10

ProbeNeeds == {k * ProbeNeedStep : k \in 0..MaxProbeNeed} \cup {20 * 1000}

ProbeFlowRates == {1, 4, 10}

InitDuration ==
  /\ InitCommon /\ file = FileMissing
  /\ probe \in {[fn |-> "duration", need |-> n, flow_rate |-> f] :
                   n \in ProbeNeeds, f \in ProbeFlowRates}
  /\ answer = NoAnswer

\* run_zone, lines 168-171, with duration None
eval_duration ==
  /\ probe.fn = "duration" /\ ~ answer.done
  /\ answer' = [done |-> TRUE,
                 value |-> ComputeDuration(probe.need, probe.flow_rate)]
  /\ UNCHANGED <<zones, tasks, file, data, last_update_success, refresh,
                 actuator, now, calls, reply, probe>>

NextDuration == eval_duration

SpecDuration == InitDuration /\ [][NextDuration]_vars

\* ------------------------------------------- the ET estimator on its own
\* daily temperatures: ordinary, equal, hot, inverted, and null
ProbeTemps ==
  {<<10, 25>>, <<15, 20>>, <<20, 20>>, <<30, 45>>, <<25, 10>>, <<None, None>>}

ProbeHumidities == {5, 50, 90, 100, None}

ProbeWinds == {0, 1, 2, 15, None}

\* the summaries _get_owm_current builds
ProbeFullSummaries ==
  {[temp_min |-> t[1], temp_max |-> t[2], humidity |-> h, wind_speed |-> u,
    precipitation |-> 0] :
     t \in ProbeTemps, h \in ProbeHumidities, u \in ProbeWinds}

\* those, the same with one key absent, and the {} of a failed fetch
ProbeSummaries ==
  ProbeFullSummaries
    \cup {[k \in (DOMAIN w) \ {drop} |-> w[k]] :
            w \in ProbeFullSummaries, drop \in RequiredFields}
    \cup {WeatherFailed}

InitEt ==
  /\ InitCommon /\ file = FileMissing
  /\ probe \in {[fn |-> "et", weather |-> w] : w \in ProbeSummaries}
  /\ answer = NoAnswer

\* calculate_et_for_day applied to the drawn summary
eval_et ==
  /\ probe.fn = "et" /\ ~ answer.done
  /\ answer' = [done |-> TRUE, value |-> calculate_et_for_day(probe.weather)]
  /\ UNCHANGED <<zones, tasks, file, data, last_update_success, refresh,
                 actuator, now, calls, reply, probe>>

NextEt == eval_et

SpecEt == InitEt /\ [][NextEt]_vars

\* ------------------------------------------------------------------- claims
Sleeping(z) == {t \in tasks : t.zone = z /\ t.pc = "sleep"}

\* the step is task t's: no other action removes or changes a task
TaskSteps(t) == t \in tasks /\ t \notin tasks'

TaskAfter(t) == {u \in tasks' : u.id = t.id}

\* the step is the refresh's save landing
RefreshWrites == refresh.pc = "opened" /\ refresh'.pc = "idle"

RECURSIVE SumTotals(_)
SumTotals(S) ==
  IF S = {} THEN 0
  ELSE LET z == CHOOSE x \in S : TRUE
       IN zones[z].total_water_used + SumTotals(S \ {z})

\* C1: run_zone on a zone whose status is already running is a no-op: the
\* zone's fields are unchanged, no turn_on is issued and no completion is
\* scheduled.
StartOnRunningIsNoOp ==
  [][\A z \in ZoneIds, d \in Durations :
       (zones[z].status = "running" /\ run_zone(z, d))
         => UNCHANGED <<zones, actuator, tasks>>]_vars

\* C2: a zone whose status is running has exactly one outstanding deferred
\* turn-off task.
RunningHasExactlyOneTimer ==
  \A z \in ZoneIds :
    zones[z].status = "running" => Cardinality(Sleeping(z)) = 1

\* C3: a run that was stopped before its duration elapsed never credits
\* water: when the only run ever started on a zone has been stopped (the zone
\* is idle, its timer still pending), that timer firing leaves
\* total_water_used and daily_water_used as they were.
StopMidRunNeverCredits ==
  [][\A t \in tasks :
       (/\ t.pc = "sleep"
        /\ zones[t.zone].status = "idle"
        /\ actuator[t.zone].on = 1
        /\ TaskSteps(t))
         => /\ zones'[t.zone].total_water_used = zones[t.zone].total_water_used
            /\ zones'[t.zone].daily_water_used = zones[t.zone].daily_water_used]_vars

\* C4: stop cancels the zone's pending deferred completion: after the stop
\* no completion of that zone is pending.
StopCancelsPendingCompletion ==
  [][\A z \in ZoneIds :
       async_turn_off(z) => (\A t \in tasks' : t.zone = z => t.pc # "sleep")]_vars

\* C5: refresh cycles and run completions interleave without losing a ledger
\* update: once all of them have finished (on the day the store already had
\* a record for), today's record holds the et and rainfall of the last
\* refresh that ended and a water-applied value equal to the sum of the
\* water_used of every completion that ran.
LedgerKeepsEveryUpdate ==
  LET today == DateOf(StartNow)
      written == data # NoData
  IN (tasks = {} /\ refresh.pc = "idle" /\ DateOf(now) = today)
       => /\ file.state = "ok"
          /\ today \in DOMAIN file.data
          /\ file.data[today].water_used =
               WarmHistory[today].water_used + Scale * SumTotals(ZoneIds)
          /\ file.data[today].et =
               (IF written THEN data.et_today ELSE WarmHistory[today].et)
          /\ file.data[today].rainfall =
               (IF written THEN Precipitation(data.weather)
                           ELSE WarmHistory[today].rainfall)

\* C6: when a run's timer fires, turn_off is issued, total_water_used and
\* daily_water_used each grow by duration * flow_rate and the zone becomes
\* idle, for explicit and for computed durations.
CompletionCreditsDurationTimesFlow ==
  [][\A t \in tasks :
       (t.pc = "sleep" /\ TaskSteps(t))
         => /\ actuator'[t.zone].off = actuator[t.zone].off + 1
            /\ zones'[t.zone].total_water_used =
                 zones[t.zone].total_water_used
                   + t.duration * ZoneConfig[t.zone].flow_rate
            /\ zones'[t.zone].daily_water_used =
                 zones[t.zone].daily_water_used
                   + t.duration * ZoneConfig[t.zone].flow_rate
            /\ zones'[t.zone].status = "idle"]_vars

\* C6 witness: one zone has completed a run of the explicit default
\* duration, another a run whose duration was computed from its need.
BothKindsOfRunCompleted ==
  \E a, b \in ZoneIds :
    /\ zones[a].status = "idle" /\ actuator[a].off = 1
    /\ zones[a].total_water_used = DEFAULT_DURATION * ZoneConfig[a].flow_rate
    /\ zones[b].status = "idle" /\ actuator[b].off = 1
    /\ zones[b].irrigation_needed > 0
    /\ zones[b].total_water_used > 0
    /\ zones[b].total_water_used # DEFAULT_DURATION * ZoneConfig[b].flow_rate

\* C7: a completion adds its water_used to the ledger record of the
\* completion day, creating the record when it is absent, and the ledger is
\* persisted with it.
CompletionAddsWaterToLedger ==
  [][\A t \in tasks :
       /\ (t.pc = "loaded" /\ TaskSteps(t))
            => \A u \in TaskAfter(t) :
                 LET today == DateOf(now)
                     before == IF today \in DOMAIN t.history
                                 THEN t.history[today].water_used ELSE 0
                 IN /\ today \in DOMAIN u.history
                    /\ u.history[today].water_used =
                         before
                           + Scale * t.duration * ZoneConfig[t.zone].flow_rate
       /\ (t.pc = "opened" /\ TaskSteps(t))
            => (file'.state = "ok" /\ t.today \in DOMAIN file'.data)]_vars

\* C8: after a save lands, the persisted ledger holds no record dated more
\* than 30 days before the day the save ran on.
SaveKeepsNoRecordOlderThanRetention ==
  [][/\ \A t \in tasks :
          (t.pc = "opened" /\ TaskSteps(t) /\ file'.state = "ok")
            => \A d \in DOMAIN file'.data : d >= t.today - 30
     /\ (RefreshWrites /\ file'.state = "ok")
            => \A d \in DOMAIN file'.data : d >= refresh.today - 30]_vars

\* C8 witness: a refresh has saved a ledger from which it dropped a record
\* more than 30 days old.
SavePrunedOldRecord ==
  /\ refresh.pc = "idle" /\ last_update_success
  /\ file.state = "ok"
  /\ \E d \in DOMAIN data.history :
       d < DateOf(now) - 30 /\ d \notin DOMAIN file.data

\* C9: after a save lands, the persisted ledger holds at most 30 records,
\* all dated within the 30 consecutive days ending on the day of the save.
SaveKeepsOnlyRetentionWindow ==
  [][(RefreshWrites /\ file'.state = "ok")
       => /\ Cardinality(DOMAIN file'.data) <= 30
          /\ \A d \in DOMAIN file'.data :
               d > refresh.today - 30 /\ d <= refresh.today]_vars

\* C10: the refresh's upsert creates today's record with water_used 0 when
\* it is absent and otherwise overwrites only et and rainfall; every other
\* record is unchanged, and the record read back (from the cycle's ledger and
\* from the saved file) holds the et and rainfall just written.
UpsertOverwritesOnlyEtAndRainfall ==
  [][/\ (refresh.pc = "loaded" /\ refresh'.pc = "opened")
          => LET today == DateOf(now)
                 h == refresh.history
                 h2 == refresh'.history
             IN /\ DOMAIN h2 = DOMAIN h \cup {today}
                /\ h2[today].et = refresh.et_today
                /\ h2[today].rainfall = Precipitation(refresh.weather)
                /\ h2[today].water_used =
                     (IF today \in DOMAIN h THEN h[today].water_used ELSE 0)
                /\ \A d \in DOMAIN h \ {today} : h2[d] = h[d]
     /\ (RefreshWrites /\ file'.state = "ok")
          => /\ refresh.today \in DOMAIN file'.data
             /\ file'.data[refresh.today] = refresh.history[refresh.today]
             /\ data'.history[refresh.today].et = refresh.et_today
             /\ data'.history[refresh.today].rainfall =
                  Precipitation(refresh.weather)]_vars

\* C10 witness: the upsert has overwritten et on a record that already
\* carried applied water, and the water is still there.
UpsertKeptAppliedWater ==
  /\ refresh.pc = "opened"
  /\ refresh.history[refresh.today].water_used > 0
  /\ refresh.history[refresh.today].et = refresh.et_today
  /\ refresh.et_today > 0

\* the ledger a cycle that ran on day `today` with in-memory ledger h saved
SavedOn(h, today) ==
  [d \in {k \in DOMAIN h : k >= today - 30} |-> h[d]]

\* the cycle in flight repeats the last finished one: same day, same
\* weather, and it loaded exactly what that cycle saved
RepeatsLastCycle ==
  /\ data # NoData
  /\ refresh.weather = data.weather
  /\ DateOf(now) \in DOMAIN data.history
  /\ refresh.history = SavedOn(data.history, DateOf(now))

\* C11: a refresh cycle replayed on the same day with identical weather
\* leaves the ledger as the first cycle left it: et, rainfall and
\* water_used of today and every other record.
RefreshReplayIsIdempotent ==
  [][(refresh.pc = "loaded" /\ refresh'.pc = "opened" /\ RepeatsLastCycle)
       => /\ refresh'.history = refresh.history
          /\ refresh'.pending = refresh.history]_vars

\* C11 witness: a second cycle with the same rainy weather has prepared the
\* ledger it is about to save, and it is the one the first cycle produced.
ReplayedRainyCycle ==
  /\ refresh.pc = "opened"
  /\ data # NoData
  /\ refresh.weather = WeatherWet /\ data.weather = WeatherWet
  /\ refresh.today \in DOMAIN data.history
  /\ refresh.pending = data.history

\* C12: every zone's irrigation_needed is at least 0 in every reachable
\* state, also when rainfall and applied water exceed ET.
NeedNeverNegative ==
  \A z \in ZoneIds : zones[z].irrigation_needed >= 0

\* C12 witness: a cycle has recomputed the zones from a ledger whose
\* rainfall and applied water over the window exceed its ET.
NeedClampedOnSurplus ==
  /\ data # NoData /\ refresh.pc = "idle"
  /\ \E d \in DOMAIN data.history :
       /\ d = DateOf(now)
       /\ data.history[d].rainfall + data.history[d].water_used
            > data.history[d].et
       /\ DOMAIN data.history = {d}
  /\ \A z \in ZoneIds : zones[z].irrigation_needed = 0 /\ zones[z].next_run # NoTime

RECURSIVE SumOver(_, _, _)
SumOver(h, D, field) ==
  IF D = {} THEN 0
  ELSE LET d == CHOOSE x \in D : TRUE
       IN h[d][field] + SumOver(h, D \ {d}, field)

TableKc(zone_type) ==
  CASE zone_type = "lawn" -> 8
    [] zone_type = "garden" -> 10
    [] zone_type = "drip" -> 6
    [] zone_type = "flowers" -> 7
    [] zone_type = "trees" -> 5
    [] OTHER -> 8

\* C13: need = max(0, (sum et - sum rainfall - sum water applied) * kc) over
\* exactly the 7 calendar days ending today, with the table's kc (lawn's for
\* an unknown type); an empty ledger gives 0 and seven days of et = 5 with
\* kc = 1.0 give 35.
NeedIsWindowDeficitTimesKc ==
  (probe.fn = "need" /\ answer.done)
    => LET h == probe.history
           W == {d \in DOMAIN h : d > probe.today - 7 /\ d <= probe.today}
           deficit == SumOver(h, W, "et") - SumOver(h, W, "rainfall")
                      - SumOver(h, W, "water_used")
           scaled == deficit * TableKc(probe.cfg.zone_type)
       IN /\ answer.value = (IF scaled > 0 THEN scaled ELSE 0)
          /\ DOMAIN h = {} => answer.value = 0
          /\ (/\ probe.cfg.zone_type = "garden"
              /\ W = {probe.today - i : i \in 0..6}
              /\ \A d \in W : h[d] = [et |-> 500, rainfall |-> 0, water_used |-> 0])
               => answer.value = 35000

\* C13 witness: a garden zone with seven days of et = 5 and an eighth, older
\* record has been evaluated to 35.
WeekOfFiveGivesThirtyFive ==
  /\ probe.fn = "need" /\ answer.done
  /\ probe.cfg.zone_type = "garden"
  /\ DOMAIN probe.history = {probe.today - i : i \in 0..7}
  /\ \A d \in DOMAIN probe.history :
       probe.history[d] = [et |-> 500, rainfall |-> 0, water_used |-> 0]
  /\ answer.value = 35000

\* the instants after t, within a fortnight, at the scheduled time of an
\* active day
LaterSlots(cfg, t) ==
  {x \in {d * MinutesPerDay + cfg.schedule[1] * 60 + cfg.schedule[2] :
            d \in {e \in (t \div MinutesPerDay)..((t \div MinutesPerDay) + 14) :
                     DayTag(e) \in cfg.days}} : x > t}

\* C14: for an enabled zone with non-empty active_days, next_run is the
\* earliest instant strictly later than now at the scheduled time of an
\* active day; a Monday-only zone gets the same Monday before the scheduled
\* time and the following Monday at or after it.
NextRunIsEarliestLaterSlot ==
  (probe.fn = "next_run" /\ answer.done /\ probe.cfg.enabled
     /\ probe.cfg.days # {})
    => LET slots == LaterSlots(probe.cfg, probe.now)
           at == probe.cfg.schedule[1] * 60 + probe.cfg.schedule[2]
           day == probe.now \div MinutesPerDay
       IN /\ answer.value \in slots
          /\ \A x \in slots : answer.value <= x
          /\ (probe.cfg.days = {"mon"} /\ DayTag(day) = "mon")
               => answer.value = (IF probe.now < day * MinutesPerDay + at
                                    THEN day * MinutesPerDay + at
                                    ELSE (day + 7) * MinutesPerDay + at)

\* C14 witness: a Monday-only zone evaluated on Monday exactly at the
\* scheduled time got the following Monday.
MondayAtScheduledTimeGetsNextMonday ==
  /\ probe.fn = "next_run" /\ answer.done /\ probe.cfg.enabled
  /\ probe.cfg.days = {"mon"}
  /\ probe.now = 6 * 60
  /\ answer.value = 7 * MinutesPerDay + 6 * 60

\* C15: next_run is absent exactly when the zone is disabled or has no
\* active day.
NextRunAbsentIffDisabledOrNoDays ==
  (probe.fn = "next_run" /\ answer.done)
    => ((answer.value = NoTime)
          <=> (~ probe.cfg.enabled \/ probe.cfg.days = {}))

\* C15 witness: an enabled zone without active days was evaluated to absent.
EnabledWithoutDaysHasNoNextRun ==
  /\ probe.fn = "next_run" /\ answer.done
  /\ probe.cfg.enabled /\ probe.cfg.days = {}
  /\ answer.value = NoTime

\* C16 as stated: the computed duration is clamp(need / flow_rate * 60, 5, 60)
\* (need in thousandths of a millimetre: need * 60 / (1000 * flow_rate)).
DurationIsExactClamp ==
  (probe.fn = "duration" /\ answer.done)
    => LET num == probe.need * 60
           den == 1000 * probe.flow_rate
       IN /\ num <= 5 * den => answer.value = 5
          /\ num >= 60 * den => answer.value = 60
          /\ (num > 5 * den /\ num < 60 * den) => answer.value * den = num

\* C16 amended: the computed duration is clamp(floor(need / flow_rate * 60),
\* 5, 60), a whole number of minutes: never below 5, never above 60, and
\* need = 20 with flow_rate = 10 gives 60.
DurationIsClampOfWholeMinutes ==
  (probe.fn = "duration" /\ answer.done)
    => LET num == probe.need * 60
           den == 1000 * probe.flow_rate
           v == answer.value
       IN /\ v >= 5 /\ v <= 60
          /\ num < 6 * den => v = 5
          /\ num >= 60 * den => v = 60
          /\ (num >= 6 * den /\ num < 60 * den)
               => (v * den <= num /\ num < (v + 1) * den)
          /\ (probe.need = 20 * 1000 /\ probe.flow_rate = 10) => v = 60

\* C16 witness: a need of 1.7 mm at 10 L/min (10.2 minutes) was computed as
\* 10 minutes.
FractionalMinutesTruncated ==
  /\ probe.fn = "duration" /\ answer.done
  /\ probe.need = 1700 /\ probe.flow_rate = 10
  /\ answer.value = 10

\* C17: a start with a zone id that matches no configured zone is reported
\* to the caller as not found and changes no state: no zone field, no
\* actuator call, no scheduled completion, no ledger write.
UnknownZoneReportedNotFound ==
  [][\A d \in Durations :
       run_zone("zx", d)
         => /\ reply' = "not_found"
            /\ UNCHANGED <<zones, actuator, tasks, file, data>>]_vars

\* a weather summary from which no ET estimate can be made: the fetch failed
\* ({}), or a field the estimate needs is missing or None
NoEstimate(w) ==
  \/ ~ ({"temp_min", "temp_max", "humidity", "wind_speed"} \subseteq DOMAIN w)
  \/ \E k \in {"temp_min", "temp_max", "humidity", "wind_speed"} : w[k] = None

\* C18: a failed or partial weather fetch never halts a refresh cycle: the
\* fetch step goes on with ET = 0, and the cycle never ends in a failure: it
\* completes, writes today's record with ET 0 and recomputes
\* irrigation_needed and next_run of every zone.
FailedWeatherNeverHaltsCycle ==
  [][/\ (refresh.pc = "idle" /\ refresh'.pc # "idle" /\ NoEstimate(refresh'.weather))
          => /\ refresh'.pc = "fetched" /\ refresh'.et_today = 0
             /\ last_update_success' = last_update_success
     /\ (refresh.pc # "idle" /\ NoEstimate(refresh.weather) /\ refresh'.pc = "idle")
          => /\ refresh.pc = "opened" /\ last_update_success'
             /\ refresh.today \in DOMAIN refresh.pending
             /\ refresh.pending[refresh.today].et = 0
             /\ data'.et_today = 0
             /\ \A z \in ZoneIds :
                  /\ zones'[z].irrigation_needed =
                       calculate_irrigation_need(ZoneConfig[z], data'.history,
                                                 DateOf(now))
                  /\ zones'[z].next_run = calculate_next_run(ZoneConfig[z], now)]_vars

\* C19: when the store exists but cannot be parsed, loading it yields an
\* empty ledger and the refresh cycle or run completion that loaded it goes
\* on normally.
UnreadableStoreLoadsEmpty ==
  [][file.state = "unparsable"
       => /\ (refresh.pc = "fetched" /\ refresh'.pc # "fetched")
               => /\ refresh'.pc = "loaded"
                  /\ refresh'.history = EmptyHistory
                  /\ last_update_success' = last_update_success
          /\ \A t \in tasks :
               (t.pc = "load" /\ t \notin tasks')
                 => \E u \in tasks' : /\ u.id = t.id /\ u.pc = "loaded"
                                      /\ u.history = EmptyHistory]_vars

\* C20: loading when no store exists yields an empty ledger and is no error,
\* for a refresh cycle and for a run completion; the first refresh cycle to
\* complete on a fresh installation succeeds and leaves a store holding
\* exactly today's record.
MissingStoreLoadsEmpty ==
  [][/\ (file.state = "missing" /\ refresh.pc = "fetched" /\ refresh'.pc # "fetched")
          => /\ refresh'.pc = "loaded" /\ refresh'.history = EmptyHistory
             /\ last_update_success' = last_update_success
     /\ file.state = "missing"
          => \A t \in tasks :
               (t.pc = "load" /\ t \notin tasks')
                 => \E u \in tasks' : /\ u.id = t.id /\ u.pc = "loaded"
                                      /\ u.history = EmptyHistory
     /\ (RefreshWrites /\ data = NoData)
          => /\ last_update_success'
             /\ file'.state = "ok"
             /\ DOMAIN file'.data = {refresh.today}
             /\ file'.data[refresh.today] =
                  [et |-> refresh.et_today,
                   rainfall |-> Precipitation(refresh.weather),
                   water_used |-> 0]]_vars

\* C20 witness: on a fresh installation the first cycle has completed and the
\* store holds exactly today's record.
FirstCycleLeftTodaysRecord ==
  /\ refresh.pc = "idle" /\ data # NoData /\ last_update_success
  /\ tasks = {} /\ calls = 1
  /\ file.state = "ok" /\ DOMAIN file.data = {DateOf(now)}

\* C21: when writing the ledger fails during a refresh cycle or a run
\* completion, the failure is surfaced as a recoverable error (the update is
\* marked failed) and the in-memory state is kept: the zones and the last
\* snapshot are as they were, a completing zone is idle with its counters
\* credited.
WriteFailureSurfacedAndStateKept ==
  [][/\ update_save_fails
          => /\ ~ last_update_success' /\ zones' = zones /\ data' = data
     /\ \A t \in tasks :
          turn_off_save_fails(t)
            => /\ ~ last_update_success'
               /\ zones' = zones /\ data' = data]_vars

\* C22: the ET estimator is total and bounded: for every weather summary it
\* returns a value in [0, 15], and exactly 0 whenever temp_min, temp_max,
\* humidity or wind_speed is missing or null or the arithmetic fails.
EtEstimatorTotalAndBounded ==
  (probe.fn = "et" /\ answer.done)
    => LET w == probe.weather
           needed == {"temp_min", "temp_max", "humidity", "wind_speed"}
           incomplete == \E k \in needed : k \notin DOMAIN w \/ w[k] = None
       IN /\ answer.value >= 0 /\ answer.value <= 15 * 100
          /\ incomplete => answer.value = 0
          /\ (~ incomplete /\ w.temp_max < w.temp_min) => answer.value = 0

\* C22 witness: a hot, dry, windy day whose Penman-Monteith sum is 21.6 mm
\* was estimated at the limit of 15 mm.
EtClampedAtFifteen ==
  /\ probe.fn = "et" /\ answer.done
  /\ probe.weather = [temp_min |-> 30, temp_max |-> 45, humidity |-> 5,
                      wind_speed |-> 15, precipitation |-> 0]
  /\ answer.value = 15 * 100

EveryTurnOnIsFollowedByTurnOff ==
  \A z \in ZoneIds : \A n \in 1..(MaxCalls + 1) :
    (actuator[z].on = n)
      ~> (actuator[z].off >= n /\ zones[z].status = "idle" /\ Sleeping(z) = {})

\* C25 witness: z1 was turned on, turned off and is idle although the save
\* of its completion failed and left the store truncated.
TurnedOffDespiteFailedSave ==
  /\ actuator["z1"].on = 1 /\ actuator["z1"].off = 1
  /\ zones["z1"].status = "idle"
  /\ tasks = {} /\ calls = 2
  /\ file.state = "unparsable"

\* the fields of a zone that describe its runs
RunState(zs, y) ==
  <<zs[y].status, zs[y].last_run, zs[y].total_water_used,
    zs[y].daily_water_used>>

\* C26: zone run state is independent across zones: a start, a stop or a
\* natural completion of one zone leaves status, last_run, total_water_used
\* and daily_water_used of every other zone, and the actuator calls issued
\* for it, unchanged.
RunsOfOneZoneLeaveOthersAlone ==
  [][\A z \in ZoneIds :
       (\/ \E d \in Durations : run_zone(z, d)
        \/ async_turn_off(z)
        \/ \E t \in tasks : t.zone = z /\ TaskSteps(t))
         => \A y \in ZoneIds \ {z} :
              /\ RunState(zones', y) = RunState(zones, y)
              /\ actuator'[y] = actuator[y]
              /\ {t \in tasks' : t.zone = y} = {t \in tasks : t.zone = y}]_vars

\* C26 witness: both zones are running at the same time, each with its own
\* pending completion and its own last_run.
TwoZonesRunningTogether ==
  /\ \A z \in ZoneIds :
       /\ zones[z].status = "running"
       /\ Cardinality(Sleeping(z)) = 1
       /\ actuator[z].on = 1 /\ actuator[z].off = 0
  /\ Cardinality(tasks) = 2

====
